---- MODULE Spec2Model ----
(***************************************************************************)
(* Model of the Google-Scholar engine adapter                              *)
(* src/lib/service_share/searx_worker/google_scholar.py: the two plugin    *)
(* functions request(query, params) and response(resp).                    *)
(*                                                                         *)
(* Strings are sequences of one-character strings, so that str.replace,    *)
(* str(), urlencode/quote_plus, "[%s]" % x and extract_text are computed   *)
(* character by character as the code computes them.                       *)
(***************************************************************************)
EXTENDS Integers, Sequences, FiniteSets, TLC

VARIABLES
    query,      \* request: the query argument (undecoded)
    params,     \* request: the mutable params bag
    entry,      \* request: the params bag as it was on entry (history)
    rpc,        \* request: "idle" | "call" | "returned" | "raised"
    rerr,       \* request: the exception that left request, or None
    resp,       \* response: the response object handed in by the host
    pc,         \* response: position in response()
    dom,        \* response: the parsed tree, or None before html.fromstring
    idx,        \* response: index of the next citation block of the for loop
    results,    \* response: the local list `results`
    ret,        \* response: the value returned to the caller, or None
    err,        \* response: the exception that left response, or None
    calls       \* response: collaborator calls made so far, in order (history)

vars == <<query, params, entry, rpc, rerr, resp, pc, dom, idx, results, ret, err, calls>>

None == "None"

\* ------------------------------------------------------------------ bounds
MaxKeys  == 2    \* keys of the JSON payload object
MaxPage  == 2    \* params['pageno'] ranges over 1..MaxPage
MaxNodes == 2    \* selector-relevant nodes of the response document

\* ------------------------------------------------------- character strings
Digits == <<"0", "1", "2", "3", "4", "5", "6", "7", "8", "9">>

Letters ==
    {"a","b","c","d","e","f","g","h","i","j","k","l","m","n","o","p","q","r",
     "s","t","u","v","w","x","y","z","A","B","C","D","E","F","G","H","I","J",
     "K","L","M","N","O","P","Q","R","S","T","U","V","W","X","Y","Z"}

RECURSIVE Concat(_)
\* ''.join(parts)
Concat(parts) ==
    IF parts = <<>> THEN <<>> ELSE Head(parts) \o Concat(Tail(parts))

RECURSIVE PyStrInt(_)
\* str(n) for an int n >= 0
PyStrInt(n) ==
    IF n < 10 THEN <<Digits[n + 1]>>
    ELSE PyStrInt(n \div 10) \o <<Digits[(n % 10) + 1]>>

\* JSON scalars as json.loads decodes them: str, int, bool
JStr(s)  == [t |-> "str",  s |-> s,    n |-> 0, b |-> FALSE]
JInt(n)  == [t |-> "int",  s |-> <<>>, n |-> n, b |-> FALSE]
JBool(b) == [t |-> "bool", s |-> <<>>, n |-> 0, b |-> b]

\* str(v)
PyStr(v) ==
    CASE v.t = "str"  -> v.s
      [] v.t = "int"  -> PyStrInt(v.n)
      [] v.t = "bool" -> IF v.b THEN <<"T","r","u","e">> ELSE <<"F","a","l","s","e">>

RECURSIVE Replace(_, _, _)
\* s.replace(old, new): every non-overlapping occurrence, left to right
Replace(s, old, new) ==
    IF Len(s) < Len(old) THEN s
    ELSE IF SubSeq(s, 1, Len(old)) = old
         THEN new \o Replace(SubSeq(s, Len(old) + 1, Len(s)), old, new)
         ELSE <<Head(s)>> \o Replace(Tail(s), old, new)

\* urllib.parse.quote_plus on one character (safe = '')
QuoteChar(c) ==
    CASE c \in Letters \cup {Digits[i] : i \in 1..10} \cup {"_", ".", "-", "~"} -> <<c>>
      [] c = " " -> <<"+">>
      [] c = "&" -> <<"%", "2", "6">>
      [] c = "=" -> <<"%", "3", "D">>
      [] c = "+" -> <<"%", "2", "B">>
      [] c = "%" -> <<"%", "2", "5">>
      [] c = "/" -> <<"%", "2", "F">>
      [] c = "?" -> <<"%", "3", "F">>
      [] c = ":" -> <<"%", "3", "A">>

\* urllib.parse.quote_plus(s)
QuotePlus(s) == Concat([i \in 1..Len(s) |-> QuoteChar(s[i])])

RECURSIVE JoinPairs(_)
JoinPairs(items) ==
    IF items = <<>> THEN <<>>
    ELSE IF Len(items) = 1 THEN items[1]
    ELSE items[1] \o <<"&">> \o JoinPairs(Tail(items))

\* urllib.parse.urlencode(d) of an insertion-ordered dict d, a sequence of
\* [k, v] items with v a decoded value: quote_plus(str(k))=quote_plus(str(v)) joined by '&'
UrlEncode(d) ==
    JoinPairs([i \in 1..Len(d) |-> QuotePlus(d[i].k) \o <<"=">> \o QuotePlus(PyStr(d[i].v))])

\* -------------------------------------------------- insertion-ordered dict
\* A Python dict is a sequence of items [k, v] with pairwise distinct keys,
\* in insertion order.
DictKeys(d) == {d[i].k : i \in 1..Len(d)}
DictSet(d, k, v) ==
    IF k \in DictKeys(d)
    THEN [i \in 1..Len(d) |-> IF d[i].k = k THEN [k |-> k, v |-> v] ELSE d[i]]
    ELSE Append(d, [k |-> k, v |-> v])

\* ----------------------------------------------------------------- request
K_hl    == <<"h", "l">>
K_lr    == <<"l", "r">>
K_ie    == <<"i", "e">>
K_oe    == <<"o", "e">>
K_start == <<"s", "t", "a", "r", "t">>
K_q     == <<"q">>
K_odd   == <<"a", "&", "b">>
Utf8    == <<"u", "t", "f", "8">>

\* time_range_dict of searx.engines.google: the recognised time ranges
time_range_dict == {"day", "week", "month", "year"}

\* datetime.now().year
CurrentYear == 2026

\* time_range_url(params): defined by the module, called nowhere (line 132 is
\* commented out)
time_range_url(p) ==
    <<"&">> \o (IF p.time_range \in time_range_dict
                THEN UrlEncode(<<[k |-> <<"a","s","_","y","l","o">>, v |-> JInt(CurrentYear - 1)]>>)
                ELSE <<>>)

\* get_lang_info(params, supported_languages, language_aliases) of
\* searx.engines.google, an external collaborator: the locale descriptor it
\* resolves for params['language'].  The first two rows have the shape searx
\* produces ('www.' + the Google domain); the last two are descriptors whose
\* subdomain has no leading 'www.'.
get_lang_info(p) ==
    CASE p.language = "en-US" ->
            [subdomain |-> <<"w","w","w",".","g",".","c","o","m">>,
             hl |-> <<"e","n">>, lr |-> <<"l","a","n","g","_","e","n">>, al |-> "en-US,en;q=0.9"]
      [] p.language = "de-DE" ->
            [subdomain |-> <<"w","w","w",".","g",".","d","e">>,
             hl |-> <<"d","e">>, lr |-> <<"l","a","n","g","_","d","e">>, al |-> "de-DE,de;q=0.9"]
      [] p.language = "zh-CN" ->
            [subdomain |-> <<"g",".","c","n">>,
             hl |-> <<"z","h","-","C","N">>, lr |-> <<"l","a","n","g","_","z","h">>, al |-> "zh-CN,zh;q=0.9"]
      [] p.language = "fr-FR" ->
            [subdomain |-> <<"m",".","w","w","w",".","g",".","f","r">>,
             hl |-> <<"f","r">>, lr |-> <<"l","a","n","g","_","f","r">>, al |-> "fr-FR,fr;q=0.9"]

Languages == {"en-US", "de-DE", "zh-CN", "fr-FR"}

AcceptValue == "text/html,application/xhtml+xml,application/xml;q=0.9,image/webp,*/*;q=0.8"

\* offset = (params['pageno'] - 1) * 10
OffsetOffByOne(pageno) == pageno * 10
Offset(pageno) == (pageno - 1) * 10

\* lang_info['subdomain'].replace("www.", "scholar.")
RewritePrefixOnly(subdomain) ==
    IF Len(subdomain) >= 4 /\ SubSeq(subdomain, 1, 4) = <<"w","w","w",".">>
    THEN <<"s","c","h","o","l","a","r",".">> \o SubSeq(subdomain, 5, Len(subdomain))
    ELSE subdomain
RewriteSubdomain(subdomain) ==
    Replace(subdomain, <<"w","w","w",".">>, <<"s","c","h","o","l","a","r",".">>)

\* d_query_url as first built
BaseMap(lang_info, offset) ==
    << [k |-> K_hl,    v |-> JStr(lang_info.hl)],
       [k |-> K_lr,    v |-> JStr(lang_info.lr)],
       [k |-> K_ie,    v |-> JStr(Utf8)],
       [k |-> K_oe,    v |-> JStr(Utf8)],
       [k |-> K_start, v |-> JInt(offset)] >>

RECURSIVE MergeLastWriterWins(_, _)
MergeLastWriterWins(d, payload) ==
    IF payload = <<>> THEN d
    ELSE MergeLastWriterWins(DictSet(d, Head(payload).k, JStr(PyStr(Head(payload).v))),
                             Tail(payload))

RECURSIVE Merge(_, _)
\* for k in json_query_payload: if k not in d_query_url: d_query_url[k] = str(json_query_payload[k])
Merge(d, payload) ==
    IF payload = <<>> THEN d
    ELSE LET k == Head(payload).k
         IN  Merge(IF k \notin DictKeys(d)
                   THEN DictSet(d, k, JStr(PyStr(Head(payload).v)))
                   ELSE d,
                   Tail(payload))

Https   == <<"h","t","t","p","s",":","/","/">>
Scholar == <<"/","s","c","h","o","l","a","r">>

\* 'https://' + lang_info['subdomain'] + '/scholar' + "?" + urlencode(d_query_url)
QueryUrl(subdomain, d) == Https \o subdomain \o Scholar \o <<"?">> \o UrlEncode(d)

\* params['headers'][name] = value
SetHeader(headers, name, value) ==
    [h \in DOMAIN headers \cup {name} |-> IF h = name THEN value ELSE headers[h]]

\* A variant of request that keeps line 132 (query_url += time_range_url(params))
\* of the original engine.
RequestFnTimeRange(q, p) ==
    LET lang_info == get_lang_info(p)
        subdomain == RewriteSubdomain(lang_info.subdomain)
        d         == Merge(BaseMap(lang_info, Offset(p.pageno)), q.items)
    IN  IF q.kind = "object"
        THEN [exc |-> None,
              params |-> [p EXCEPT
                  !.url = QueryUrl(subdomain, d) \o time_range_url(p),
                  !.headers = SetHeader(SetHeader(p.headers, "Accept-Language", lang_info.al),
                                        "Accept", AcceptValue)]]
        ELSE [exc |-> IF q.kind = "text" THEN "JSONDecodeError" ELSE "TypeError", params |-> p]

\* A variant of request that writes the headers before it decodes the query.
RequestFnHeadersFirst(q, p) ==
    LET lang_info == get_lang_info(p)
        subdomain == RewriteSubdomain(lang_info.subdomain)
        d         == Merge(BaseMap(lang_info, Offset(p.pageno)), q.items)
        p1        == [p EXCEPT
                       !.headers = SetHeader(SetHeader(p.headers, "Accept-Language", lang_info.al),
                                             "Accept", AcceptValue)]
    IN  IF q.kind = "object"
        THEN [exc |-> None, params |-> [p1 EXCEPT !.url = QueryUrl(subdomain, d)]]
        ELSE [exc |-> IF q.kind = "text" THEN "JSONDecodeError" ELSE "TypeError", params |-> p1]

\* request(query, params): the exception that leaves it (None on return) and
\* the params bag as the call leaves it.
\*   q.kind = "text"   : query is not valid JSON, json.loads raises (line 109)
\*   q.kind = "number" : query is a JSON number, `for k in` raises TypeError (line 122)
\*   q.kind = "object" : query is a JSON object with the items q.items
RequestFn(q, p) ==
    LET offset    == Offset(p.pageno)
        lang_info == get_lang_info(p)
        subdomain == RewriteSubdomain(lang_info.subdomain)
    IN  IF q.kind = "text" THEN [exc |-> "JSONDecodeError", params |-> p]
        ELSE IF q.kind = "number" THEN [exc |-> "TypeError", params |-> p]
        ELSE LET d == Merge(BaseMap(lang_info, offset), q.items)
             IN  [exc |-> None,
                  params |-> [p EXCEPT
                      !.url = QueryUrl(subdomain, d),
                      !.headers = SetHeader(SetHeader(p.headers, "Accept-Language", lang_info.al),
                                            "Accept", AcceptValue)]]

\* The host calls request(query, params).
Request ==
    /\ rpc = "call"
    /\ LET r == RequestFn(query, params)
       IN  /\ params' = r.params
           /\ rerr' = r.exc
           /\ rpc' = IF r.exc = None THEN "returned" ELSE "raised"
    /\ UNCHANGED <<query, entry, resp, pc, dom, idx, results, ret, err, calls>>

\* ------------------------------------------------------- request's inputs
PayloadKeys == {K_q, K_hl, K_start, K_odd}
PayloadValues ==
    { JStr(<<"x", " ", "y">>), JStr(<<"c", "&", "d", "=", "e">>), JInt(2020), JBool(TRUE) }

RECURSIVE DistinctKeySeqs(_)
\* the sequences of n items with pairwise distinct keys
DistinctKeySeqs(n) ==
    IF n = 0 THEN { <<>> }
    ELSE { Append(s, [k |-> k, v |-> v]) :
             s \in { t \in DistinctKeySeqs(n - 1) : TRUE },
             k \in PayloadKeys, v \in PayloadValues }

Payloads ==
    { s \in UNION { DistinctKeySeqs(n) : n \in 0..MaxKeys } :
        \A i, j \in 1..Len(s) : i # j => s[i].k # s[j].k }

Queries ==
    { [kind |-> "text", items |-> <<>>], [kind |-> "number", items |-> <<>>] }
    \cup { [kind |-> "object", items |-> s] : s \in Payloads }

HeaderBags ==
    { [h \in {"User-Agent"} |-> "searx"],
      [h \in {"User-Agent", "Accept"} |-> IF h = "Accept" THEN "*/*" ELSE "searx"] }

ParamBags ==
    [ pageno : 1..MaxPage, time_range : {None, "year"}, language : Languages,
      headers : HeaderBags, url : { <<>> } ]

IdleResp == [sorry |-> FALSE, text |-> <<>>]

InitRequest ==
    /\ query \in Queries
    /\ params \in ParamBags
    /\ entry = params
    /\ rpc = "call"
    /\ rerr = None
    /\ resp = IdleResp
    /\ pc = "idle"
    /\ dom = <<>>
    /\ idx = 0
    /\ results = <<>>
    /\ ret = <<>>
    /\ err = None
    /\ calls = <<>>

\* ---------------------------------------------------------------- response
\* The response document is the sequence, in document order, of the nodes the
\* three selectors of response() can match:
\*   kind "gs_ri"   : a div[@class="gs_ri"] with
\*        anchors : the a elements under its h3[1], each with its text and
\*                  its href attribute values (<<>> when it has none),
\*        rs, a, ct1 : the texts of its div.gs_rs, div.gs_a and span.gs_ct1 elements
\*   kind "suggest" : an a under div[contains(@class,"gs_qsuggest_wrap")]//li
\*   kind "correct" : an a under div[@class="gs_r gs_pda"]
Anchor(text, href) == [text |-> text, href |-> href]
Block(anchors, rs, a, ct1) ==
    [kind |-> "gs_ri", anchors |-> anchors, rs |-> rs, a |-> a, ct1 |-> ct1, text |-> <<>>]
Link(kind, text) ==
    [kind |-> kind, anchors |-> <<>>, rs |-> <<>>, a |-> <<>>, ct1 |-> <<>>, text |-> text]

RECURSIVE StripLeft(_)
StripLeft(s) == IF s # <<>> /\ Head(s) = " " THEN StripLeft(Tail(s)) ELSE s

RECURSIVE StripRight(_)
StripRight(s) ==
    IF s # <<>> /\ s[Len(s)] = " " THEN StripRight(SubSeq(s, 1, Len(s) - 1)) ELSE s

\* str.strip()
Strip(s) == StripRight(StripLeft(s))

RECURSIVE FirstWord(_)
FirstWord(s) ==
    IF s = <<>> \/ Head(s) = " " THEN <<>> ELSE <<Head(s)>> \o FirstWord(Tail(s))

RECURSIVE JoinWords(_)
\* ' '.join(text.split())
JoinWords(s) ==
    LET t == StripLeft(s)
        w == FirstWord(t)
        r == StripLeft(SubSeq(t, Len(w) + 1, Len(t)))
    IN  IF t = <<>> THEN <<>>
        ELSE IF r = <<>> THEN w
        ELSE w \o <<" ">> \o JoinWords(r)

\* searx.utils.extract_text of one element: its text, whitespace-normalised
ExtractTextElem(text) == JoinWords(Strip(text))

\* searx.utils.extract_text of a list of elements: the concatenation of the
\* elements' extracted texts, stripped ('' for the empty list)
ExtractText(texts) ==
    Strip(Concat([i \in 1..Len(texts) |-> ExtractTextElem(texts[i])]))

\* eval_xpath_list(dom, '//div[@class="gs_ri"]')
CitationBlocks(d) == SelectSeq(d, LAMBDA n : n.kind = "gs_ri")
\* eval_xpath(dom, '//div[contains(@class, "gs_qsuggest_wrap")]//li//a')
SuggestionLinks(d) == SelectSeq(d, LAMBDA n : n.kind = "suggest")
\* eval_xpath(dom, '//div[@class="gs_r gs_pda"]/a')
CorrectionLinks(d) == SelectSeq(d, LAMBDA n : n.kind = "correct")

\* title = extract_text(eval_xpath(result, './h3[1]//a'))
TitleText(b) == ExtractText([i \in 1..Len(b.anchors) |-> b.anchors[i].text])

\* eval_xpath(result, './h3[1]//a/@href')
Hrefs(b) == Concat([i \in 1..Len(b.anchors) |-> b.anchors[i].href])

\* if not title: continue
SkipNever(b) == FALSE
SkipBlock(b) == TitleText(b) = <<>>

\* url = eval_xpath(result, './h3[1]//a/@href')[0]; callers check Hrefs(b) # <<>>
UrlLast(b) == Hrefs(b)[Len(Hrefs(b))]
UrlOf(b) == Hrefs(b)[1]

\* content = extract_text(...gs_rs...) or ''; if pub_info: content += "[%s]" % pub_info
ContentSpaced(b) ==
    ExtractText(b.rs) \o (IF ExtractText(b.a) # <<>>
                          THEN <<" ", "[">> \o ExtractText(b.a) \o <<"]">> ELSE <<>>)
ContentOf(b) ==
    LET content  == ExtractText(b.rs)
        pub_info == ExtractText(b.a)
    IN  IF pub_info # <<>> THEN content \o <<"[">> \o pub_info \o <<"]">> ELSE content

\* if pub_type: title = title + " " + pub_type
TitleOf(b) ==
    LET pub_type == ExtractText(b.ct1)
    IN  IF pub_type # <<>> THEN TitleText(b) \o <<" ">> \o pub_type ELSE TitleText(b)

\* the two loops after the citation blocks (lines 184-190)
LinkRecordsCorrectionsFirst(d) ==
    [i \in 1..Len(CorrectionLinks(d)) |-> [correction |-> ExtractTextElem(CorrectionLinks(d)[i].text)]]
    \o [i \in 1..Len(SuggestionLinks(d)) |-> [suggestion |-> ExtractTextElem(SuggestionLinks(d)[i].text)]]
LinkRecords(d) ==
    [i \in 1..Len(SuggestionLinks(d)) |-> [suggestion |-> ExtractTextElem(SuggestionLinks(d)[i].text)]]
    \o [i \in 1..Len(CorrectionLinks(d)) |-> [correction |-> ExtractTextElem(CorrectionLinks(d)[i].text)]]

\* detect_google_sorry(resp) of searx.engines.google, an external collaborator:
\* the exception it raises, None when it returns
detect_google_sorry(r) == IF r.sorry THEN "SearxEngineCaptchaException" ELSE None

\* A variant of the first step that parses the text before it runs the detector.
ResponseDetectAfterParse ==
    /\ pc = "detect"
    /\ calls' = calls \o <<"html.fromstring", "detect_google_sorry">>
    /\ dom' = <<resp.text>>
    /\ LET e == detect_google_sorry(resp)
       IN  IF e # None
           THEN /\ pc' = "raised" /\ err' = e /\ idx' = idx
           ELSE /\ pc' = "blocks" /\ err' = err /\ idx' = 1
    /\ UNCHANGED <<query, params, entry, rpc, rerr, resp, results, ret>>

\* results = []; detect_google_sorry(resp)   (lines 148-150)
ResponseDetect ==
    /\ pc = "detect"
    /\ calls' = Append(calls, "detect_google_sorry")
    /\ LET e == detect_google_sorry(resp)
       IN  IF e # None
           THEN /\ pc' = "raised" /\ err' = e
           ELSE /\ pc' = "parse" /\ err' = err
    /\ UNCHANGED <<query, params, entry, rpc, rerr, resp, dom, idx, results, ret>>

\* dom = html.fromstring(resp.text); the for loop evaluates its selector (lines 156-159)
ResponseParse ==
    /\ pc = "parse"
    /\ calls' = calls \o <<"html.fromstring", "eval_xpath_list">>
    /\ dom' = <<resp.text>>
    /\ idx' = 1
    /\ pc' = "blocks"
    /\ UNCHANGED <<query, params, entry, rpc, rerr, resp, results, ret, err>>

\* one iteration of the loop over the citation blocks (lines 159-182)
ResponseBlock ==
    /\ pc = "blocks"
    /\ idx <= Len(CitationBlocks(dom[1]))
    /\ calls' = Append(calls, "eval_xpath")
    /\ LET b == CitationBlocks(dom[1])[idx]
       IN  IF SkipBlock(b)
           THEN /\ idx' = idx + 1
                /\ UNCHANGED <<pc, results, err>>
           ELSE IF Hrefs(b) = <<>>
           THEN /\ pc' = "raised"
                /\ err' = "IndexError"
                /\ UNCHANGED <<idx, results>>
           ELSE /\ results' = Append(results,
                        [url |-> UrlOf(b), title |-> TitleOf(b), content |-> ContentOf(b)])
                /\ idx' = idx + 1
                /\ UNCHANGED <<pc, err>>
    /\ UNCHANGED <<query, params, entry, rpc, rerr, resp, dom, ret>>

\* the suggestion loop, the correction loop and the return (lines 184-192)
ResponseReturn ==
    /\ pc = "blocks"
    /\ idx > Len(CitationBlocks(dom[1]))
    /\ calls' = calls \o <<"eval_xpath", "eval_xpath">>
    /\ results' = results \o LinkRecords(dom[1])
    /\ ret' = <<results'>>
    /\ pc' = "returned"
    /\ UNCHANGED <<query, params, entry, rpc, rerr, resp, dom, idx, err>>

\* ------------------------------------------------------ response's inputs
T_title == <<"T">>
T_other == <<"U">>
U_one   == <<"u", "1">>
U_two   == <<"u", "2">>

AnchorLists ==
    { <<>>,
      << Anchor(<<" ">>, <<U_one>>) >>,
      << Anchor(T_title, <<>>) >>,
      << Anchor(T_title, <<U_one>>) >>,
      << Anchor(T_title, <<>>), Anchor(T_other, <<U_two>>), Anchor(T_other, <<U_one>>) >> }

SnippetLists == { <<>>, << <<" ", "s", " ", " ", "t">> >> }
PubInfoLists == { <<>>, << <<"J", " ", "2", "0">> >> }
PubTypeLists == { <<>>, << <<"[", "P", "]">> >> }

Nodes ==
    { Block(an, rs, a, ct1) :
        an \in AnchorLists, rs \in SnippetLists, a \in PubInfoLists, ct1 \in PubTypeLists }
    \cup { Link("suggest", <<"x">>), Link("suggest", <<"y">>),
           Link("correct", <<"v">>), Link("correct", <<"w">>) }

Documents == UNION { [1..n -> Nodes] : n \in 0..MaxNodes }

InitResponse ==
    /\ resp \in [sorry : BOOLEAN, text : Documents]
    /\ pc = "detect"
    /\ dom = <<>>
    /\ idx = 0
    /\ results = <<>>
    /\ ret = <<>>
    /\ err = None
    /\ calls = <<>>
    /\ query = [kind |-> "text", items |-> <<>>]
    /\ params = [pageno |-> 1, time_range |-> None, language |-> "en-US",
                 headers |-> [h \in {"User-Agent"} |-> "searx"], url |-> <<>>]
    /\ entry = params
    /\ rpc = "idle"
    /\ rerr = None

\* ---------------------------------------------------------- specification
Init == InitRequest \/ InitResponse

Next ==
    \/ Request
    \/ ResponseDetect
    \/ ResponseParse
    \/ ResponseBlock
    \/ ResponseReturn

Spec == Init /\ [][Next]_vars

\* ------------------------------------------- reading a built URL back
\* What a receiver of the URL sees: urllib.parse.urlsplit and parse_qsl.
\* position of the first c in s, 0 when there is none
IndexOf(s, c) ==
    LET at == {i \in 1..Len(s) : s[i] = c}
    IN  IF at = {} THEN 0 ELSE CHOOSE i \in at : \A j \in at : i <= j

RECURSIVE SplitOn(_, _)
\* s.split(c) for a one-character separator
SplitOn(s, c) ==
    LET i == IndexOf(s, c)
    IN  IF i = 0 THEN <<s>>
        ELSE <<SubSeq(s, 1, i - 1)>> \o SplitOn(SubSeq(s, i + 1, Len(s)), c)

RECURSIVE SplitOnString(_, _)
\* s.split(sep) for a separator string
SplitOnString(s, sep) ==
    IF \E i \in 1..(Len(s) - Len(sep) + 1) : SubSeq(s, i, i + Len(sep) - 1) = sep
    THEN LET i == CHOOSE i \in 1..(Len(s) - Len(sep) + 1) :
                     /\ SubSeq(s, i, i + Len(sep) - 1) = sep
                     /\ \A j \in 1..(i - 1) : SubSeq(s, j, j + Len(sep) - 1) # sep
         IN  <<SubSeq(s, 1, i - 1)>> \o SplitOnString(SubSeq(s, i + Len(sep), Len(s)), sep)
    ELSE <<s>>

RECURSIVE JoinWith(_, _)
\* sep.join(parts)
JoinWith(parts, sep) ==
    IF Len(parts) = 0 THEN <<>>
    ELSE IF Len(parts) = 1 THEN parts[1]
    ELSE parts[1] \o sep \o JoinWith(Tail(parts), sep)

PercentDecode(a, b) ==
    CASE <<a, b>> = <<"2", "6">> -> "&"
      [] <<a, b>> = <<"3", "D">> -> "="
      [] <<a, b>> = <<"2", "B">> -> "+"
      [] <<a, b>> = <<"2", "5">> -> "%"
      [] <<a, b>> = <<"2", "F">> -> "/"
      [] <<a, b>> = <<"3", "F">> -> "?"
      [] <<a, b>> = <<"3", "A">> -> ":"
      [] OTHER -> "?"

RECURSIVE UnquotePlus(_)
UnquotePlus(s) ==
    IF s = <<>> THEN <<>>
    ELSE IF Head(s) = "+" THEN <<" ">> \o UnquotePlus(Tail(s))
    ELSE IF Head(s) = "%" /\ Len(s) >= 3
         THEN <<PercentDecode(s[2], s[3])>> \o UnquotePlus(SubSeq(s, 4, Len(s)))
    ELSE <<Head(s)>> \o UnquotePlus(Tail(s))

\* parse_qsl(qs): the [k, v] pairs of a query string, in order
ParseQsl(qs) ==
    LET fields == IF qs = <<>> THEN <<>> ELSE SplitOn(qs, "&")
    IN  [i \in 1..Len(fields) |->
            LET e == IndexOf(fields[i], "=")
            IN  IF e = 0 THEN [k |-> UnquotePlus(fields[i]), v |-> <<>>]
                ELSE [k |-> UnquotePlus(SubSeq(fields[i], 1, e - 1)),
                      v |-> UnquotePlus(SubSeq(fields[i], e + 1, Len(fields[i])))]]

\* the host part of a URL: after 'https://' up to the next '/'
UrlHost(url) ==
    LET rest == SubSeq(url, Len(Https) + 1, Len(url))
    IN  SubSeq(rest, 1, IndexOf(rest, "/") - 1)

\* the query part of a URL: after the first '?'
UrlQuery(url) == SubSeq(url, IndexOf(url, "?") + 1, Len(url))

RECURSIVE ParseInt(_)
\* int(s) of a decimal string
ParseInt(s) ==
    IF s = <<>> THEN 0
    ELSE 10 * ParseInt(SubSeq(s, 1, Len(s) - 1))
         + ((CHOOSE i \in 1..10 : Digits[i] = s[Len(s)]) - 1)

SeqRange(s) == {s[i] : i \in 1..Len(s)}

UrlPairs == ParseQsl(UrlQuery(params.url))

ReservedKeys == {K_hl, K_lr, K_ie, K_oe, K_start}

RequestReturned == rpc = "returned"

\* ------------------------------------------------------------------ claims

\* C1: after request returns for a JSON object payload, the query-parameter map
\* read back from params['url'] is the base map {hl, lr, ie, oe, start} (locale
\* hl and lr, 'utf8', 'utf8', the computed offset) extended with exactly the
\* payload keys outside {hl, lr, ie, oe, start}, each with its value coerced
\* to a string; a payload value under a reserved key is ignored.
C1_MergedQueryMap ==
    (RequestReturned /\ query.kind = "object") =>
        LET li == get_lang_info(entry)
            expected ==
                { [k |-> K_hl, v |-> li.hl], [k |-> K_lr, v |-> li.lr],
                  [k |-> K_ie, v |-> Utf8],  [k |-> K_oe, v |-> Utf8],
                  [k |-> K_start, v |-> PyStrInt((entry.pageno - 1) * 10)] }
                \cup { [k |-> it.k, v |-> PyStr(it.v)] :
                         it \in { x \in SeqRange(query.items) : x.k \notin ReservedKeys } }
            pairs == UrlPairs
        IN  /\ SeqRange(pairs) = expected
            /\ Len(pairs) = Cardinality(expected)

C1_Witness ==
    /\ RequestReturned
    /\ query.kind = "object"
    /\ \E i, j \in 1..Len(query.items) :
          /\ query.items[i].k = K_hl
          /\ query.items[j].k = K_odd
          /\ query.items[j].v = JStr(<<"c", "&", "d", "=", "e">>)

\* C2: when the query is not valid JSON, request fails with the parse error
\* and the params bag is as it was on entry: no url, no header written.
C2_InvalidJsonLeavesParams ==
    (rpc \in {"returned", "raised"} /\ query.kind = "text") =>
        /\ rpc = "raised"
        /\ rerr = "JSONDecodeError"
        /\ params = entry
        /\ params.url = <<>>
        /\ "Accept-Language" \notin DOMAIN params.headers

C2_Witness ==
    /\ rpc = "raised"
    /\ query.kind = "text"
    /\ "Accept" \notin DOMAIN params.headers

\* C3: for every page number n >= 1 the built URL carries start = (n - 1) * 10,
\* whatever the payload contains.
C3_StartIsOffset ==
    RequestReturned =>
        LET pairs == UrlPairs
        IN  /\ \E i \in 1..Len(pairs) : pairs[i].k = K_start
            /\ \A i \in 1..Len(pairs) :
                  pairs[i].k = K_start => ParseInt(pairs[i].v) = (entry.pageno - 1) * 10

C3_Witness ==
    /\ RequestReturned
    /\ entry.pageno = 2
    /\ \E i \in 1..Len(query.items) : query.items[i].k = K_start

\* C8: a successful request changes only params['url'] and the headers
\* Accept-Language and Accept; every other field and header of the bag is as
\* on entry, and the built URL is the same for every value of time_range.
C8_RequestFrame ==
    RequestReturned =>
        /\ DOMAIN params = DOMAIN entry
        /\ \A f \in DOMAIN entry \ {"url", "headers"} : params[f] = entry[f]
        /\ DOMAIN params.headers = DOMAIN entry.headers \cup {"Accept-Language", "Accept"}
        /\ \A h \in DOMAIN entry.headers \ {"Accept-Language", "Accept"} :
              params.headers[h] = entry.headers[h]
        /\ \A tr \in {None} \cup time_range_dict :
              RequestFn(query, [entry EXCEPT !.time_range = tr]).params.url = params.url

C8_Witness ==
    /\ RequestReturned
    /\ entry.time_range = "year"
    /\ "Accept" \in DOMAIN entry.headers
    /\ params.headers["Accept"] # entry.headers["Accept"]

Www == <<"w", "w", "w", ".">>
ScholarDot == <<"s", "c", "h", "o", "l", "a", "r", ".">>

Terminated == pc \in {"returned", "raised"}
Delivered == IF ret = <<>> THEN <<>> ELSE ret[1]
IsHit(r) == DOMAIN r = {"url", "title", "content"}
IsSuggestion(r) == DOMAIN r = {"suggestion"}
IsCorrection(r) == DOMAIN r = {"correction"}
HitsOf(rs) == SelectSeq(rs, IsHit)
HasTitle(b) == ExtractText([i \in 1..Len(b.anchors) |-> b.anchors[i].text]) # <<>>
TitledBlocks(d) == SelectSeq(CitationBlocks(d), HasTitle)

\* C4: the sorry-page detector is the first collaborator response calls, before
\* the text is parsed and before any selector is evaluated; when it fails,
\* response leaves with the detector's exception, nothing is parsed and no
\* record is built or returned.
C4_DetectorFirst ==
    /\ calls # <<>> => calls[1] = "detect_google_sorry"
    /\ dom # <<>> => ~resp.sorry
    /\ (resp.sorry /\ pc \notin {"idle", "detect"}) =>
          /\ pc = "raised"
          /\ err = detect_google_sorry(resp)
          /\ calls = <<"detect_google_sorry">>
          /\ dom = <<>>
          /\ results = <<>>
          /\ ret = <<>>

C4_Witness ==
    /\ pc = "raised"
    /\ resp.sorry
    /\ TitledBlocks(resp.text) # <<>>

\* C5 as stated: for every sequence of citation blocks, response emits one hit
\* record per titled block (and none per titleless block).
C5_OneHitPerTitledBlock ==
    (Terminated /\ ~resp.sorry) =>
        Len(HitsOf(Delivered)) = Len(TitledBlocks(resp.text))

\* C5 amended: whenever response returns, the hit records it returns are one per
\* titled block, in the document order of those blocks, and none for a
\* titleless block, whatever snippet, publication info or type that block has.
C5_OneHitPerTitledBlockOnReturn ==
    pc = "returned" =>
        LET hits   == HitsOf(ret[1])
            titled == TitledBlocks(resp.text)
        IN  /\ Len(hits) = Len(titled)
            /\ \A i \in 1..Len(hits) :
                  hits[i] = [url |-> UrlOf(titled[i]), title |-> TitleOf(titled[i]),
                             content |-> ContentOf(titled[i])]

C5_Witness ==
    /\ pc = "returned"
    /\ Len(resp.text) = 2
    /\ resp.text[1].kind = "gs_ri" /\ ~HasTitle(resp.text[1])
    /\ resp.text[1].anchors # <<>> /\ resp.text[1].rs # <<>> /\ resp.text[1].a # <<>>
    /\ resp.text[2].kind = "gs_ri" /\ HasTitle(resp.text[2])
    /\ Len(HitsOf(ret[1])) = 1

Rank(r) == IF IsHit(r) THEN 1 ELSE IF IsSuggestion(r) THEN 2 ELSE 3

\* C6: in the returned sequence every hit record precedes every suggestion
\* record and every suggestion record precedes every correction record; there
\* is one suggestion record per suggestion link and one correction record per
\* correction link, each group in document order.
C6_GroupOrder ==
    pc = "returned" =>
        LET r  == ret[1]
            sl == SuggestionLinks(resp.text)
            cl == CorrectionLinks(resp.text)
        IN  /\ \A i, j \in 1..Len(r) : i < j => Rank(r[i]) <= Rank(r[j])
            /\ SelectSeq(r, IsSuggestion)
                  = [i \in 1..Len(sl) |-> [suggestion |-> ExtractTextElem(sl[i].text)]]
            /\ SelectSeq(r, IsCorrection)
                  = [i \in 1..Len(cl) |-> [correction |-> ExtractTextElem(cl[i].text)]]
            /\ \A i \in 1..Len(r) : IsHit(r[i]) \/ IsSuggestion(r[i]) \/ IsCorrection(r[i])

C6_Witness ==
    /\ pc = "returned"
    /\ Len(resp.text) = 2
    /\ resp.text[1].kind = "correct"
    /\ resp.text[2].kind = "suggest"
    /\ Len(ret[1]) = 2

\* C7: every returned hit record has content = snippet + '[' + pub_info + ']'
\* when the block has publication-info text and content = snippet otherwise,
\* the snippet being '' when the block has no snippet element; and response
\* never fails over an absent snippet, publication info or publication type:
\* past the detector it fails only at a titled block whose anchors carry no href.
C7_ContentFormat ==
    /\ pc = "returned" =>
          LET hits   == HitsOf(ret[1])
              titled == TitledBlocks(resp.text)
          IN  \A i \in 1..Len(hits) :
                 LET snippet == IF titled[i].rs = <<>> THEN <<>> ELSE ExtractText(titled[i].rs)
                     pub     == ExtractText(titled[i].a)
                 IN  hits[i].content =
                        IF pub # <<>> THEN snippet \o <<"[">> \o pub \o <<"]">> ELSE snippet
    /\ (pc = "raised" /\ ~resp.sorry) =>
          \E i \in 1..Len(resp.text) :
             /\ resp.text[i].kind = "gs_ri"
             /\ HasTitle(resp.text[i])
             /\ \A a \in 1..Len(resp.text[i].anchors) : resp.text[i].anchors[a].href = <<>>

C7_Witness ==
    /\ pc = "returned"
    /\ Len(HitsOf(ret[1])) = 2
    /\ resp.text[1].rs = <<>> /\ resp.text[1].a = <<>> /\ resp.text[1].ct1 = <<>>
    /\ HitsOf(ret[1])[1].content = <<>>
    /\ resp.text[2].rs # <<>>
    /\ HitsOf(ret[1])[2].content = <<"s", " ", "t", "[", "J", " ", "2", "0", "]">>

\* the first href among the anchors of the block's first heading
FirstHref(b) ==
    LET a == CHOOSE a \in 1..Len(b.anchors) :
                /\ b.anchors[a].href # <<>>
                /\ \A c \in 1..(a - 1) : b.anchors[c].href = <<>>
    IN  b.anchors[a].href[1]

NoHref(b) == \A a \in 1..Len(b.anchors) : b.anchors[a].href = <<>>

\* C10: response is all-or-nothing: when some citation block has title text
\* but no href, response leaves with an error and returns no sequence, also
\* when earlier blocks already built records; in every run that returns, each
\* hit record's url is the first href of its block's first-heading anchors.
C10_AllOrNothing ==
    /\ (Terminated /\ ~resp.sorry
          /\ \E i \in 1..Len(resp.text) :
                resp.text[i].kind = "gs_ri" /\ HasTitle(resp.text[i]) /\ NoHref(resp.text[i]))
          => (pc = "raised" /\ err = "IndexError" /\ ret = <<>>)
    /\ pc # "returned" => ret = <<>>
    /\ pc = "returned" =>
          LET hits   == HitsOf(ret[1])
              titled == TitledBlocks(resp.text)
          IN  /\ Len(hits) = Len(titled)
              /\ \A i \in 1..Len(hits) : hits[i].url = FirstHref(titled[i])

C10_Witness ==
    /\ pc = "raised"
    /\ err = "IndexError"
    /\ results # <<>>
    /\ ret = <<>>

====
